---------------------------- MODULE Spec2Model ----------------------------
(***************************************************************************)
(* Rollout coordination of dpeachey/temporal-testing (src/worker.py,       *)
(* src/api.py; src/main.py holds the same definitions in one file).        *)
(*                                                                         *)
(* Python strings are sequences of one-character strings, so that the      *)
(* f-string formatting and str.split of the source are computed, not       *)
(* assumed.  A dict is a sequence of <<key, value>> pairs with distinct    *)
(* keys, in insertion order, as a Python dict is.                          *)
(*                                                                         *)
(* The state of a workflow is the state its event history determines; one  *)
(* action is one workflow task, one activity completion or one API call.   *)
(***************************************************************************)
EXTENDS Naturals, Sequences, FiniteSets, TLC

VARIABLES
    coord,      \* ProposedChangeWorkflow executions, by workflow id
    children,   \* ConfigureDevice child executions, by workflow id
    router,     \* the signal_running_workflows call in flight (api.py)
    n_starts,   \* trigger calls made so far (also numbers the runs)
    n_events,   \* artifact-updated events received so far
    call,       \* the activity call under study in SpecCalls
    portkey,    \* PortkeyWorkflow executions, by workflow id
    proc,       \* the ConfigureDevice execution under study in SpecDevice
    world       \* what that execution talks to: the store and the device

vars == <<coord, children, router, n_starts, n_events, call, portkey, proc, world>>

---------------------------------------------------------------------------
(* Bounds *)

MaxStarts == 2
MaxEvents == 2
MaxArtifacts == 2
MaxChanged == 2
MaxChanges == 2
MaxAttempts == 2

---------------------------------------------------------------------------
(* Values *)

ObjectIds == {<<"R", "1">>, <<"R", "2">>}
Checksums == {<<"c", "1">>, <<"c", "2">>}
Labels == {<<"d", "1">>, <<"d", "2">>}
StorageIds == {<<"s", "1">>, <<"s", "2">>}
ProposedChangeIds == {<<"p", "1">>, <<"p", "2">>}
Branches == {<<"f", "x">>}

\* (object id, checksum, display_label, storage_id), worker.py:97-114
ArtifactTuples == ObjectIds \X Checksums \X Labels \X StorageIds

display_label(obj) == <<"d", obj[2]>>
storage_id(cs) == <<"s", cs[2]>>

\* the artifacts a store whose objects keep their label can hold
StoreTuples ==
    {t \in ArtifactTuples : t[3] = display_label(t[1]) /\ t[4] = storage_id(t[2])}

SmallSubsets(S) == {X \in SUBSET S : Cardinality(X) <= MaxArtifacts}

\* every order in which a Python set can be iterated
Orders(S) ==
    {s \in [1..Cardinality(S) -> S] : \A i, j \in DOMAIN s : i # j => s[i] # s[j]}

---------------------------------------------------------------------------
(* Strings and dicts *)

\* f"{a},{b}" (worker.py:228), and the JSON key of the tuple (a, b)
CommaJoin(a, b) == a \o <<",">> \o b

IndexOf(s, sep) ==
    IF \E i \in DOMAIN s : s[i] = sep
    THEN CHOOSE i \in DOMAIN s : s[i] = sep /\ \A j \in 1..(i - 1) : s[j] # sep
    ELSE 0

\* s.split(sep): the pieces of s between the separators
RECURSIVE split(_, _)
split(s, sep) ==
    LET i == IndexOf(s, sep)
    IN  IF i = 0 THEN <<s>>
        ELSE <<SubSeq(s, 1, i - 1)>> \o split(SubSeq(s, i + 1, Len(s)), sep)

keys(d) == {d[i][1] : i \in DOMAIN d}

items(d) == d

get(d, k) == d[CHOOSE i \in DOMAIN d : d[i][1] = k][2]

\* d[k] = v : a new key is appended, a known key keeps its place
setitem(d, k, v) ==
    IF k \in keys(d)
    THEN [i \in DOMAIN d |-> IF d[i][1] = k THEN <<k, v>> ELSE d[i]]
    ELSE Append(d, <<k, v>>)

---------------------------------------------------------------------------
(* get_updated_devices, worker.py:91-117 *)

\* {(artifact[0], artifact[1]): artifact[2] for artifact in order}
RECURSIVE dict_comprehension(_, _)
dict_comprehension(order, d) ==
    IF order = <<>> THEN d
    ELSE dict_comprehension(Tail(order),
            setitem(d, <<Head(order)[1], Head(order)[2]>>, Head(order)[3]))

\* a.difference(b), iterated in the order its elements have in `order`
difference(a, b, order) ==
    LET RECURSIVE keep(_)
        keep(o) ==
            IF o = <<>> THEN <<>>
            ELSE IF Head(o) \in a /\ Head(o) \notin b
                 THEN <<Head(o)>> \o keep(Tail(o))
                 ELSE keep(Tail(o))
    IN  keep(order)

\* faulty variant: the comprehension runs over the branch's tuples, main forgotten
get_updated_devices_no_difference(branch_artifacts, main_artifacts, order) ==
    dict_comprehension(difference(branch_artifacts, {}, order), <<>>)

\* branch_artifacts, main_artifacts: the tuples of the two query results;
\* order: the order in which the set of the branch's tuples is iterated
get_updated_devices(branch_artifacts, main_artifacts, order) ==
    dict_comprehension(difference(branch_artifacts, main_artifacts, order), <<>>)

\* the activity result as the workflow receives it: the data converter
\* writes a tuple key (a, b) as the JSON object key "a,b"
RECURSIVE to_json_dict(_, _)
to_json_dict(d, out) ==
    IF d = <<>> THEN out
    ELSE to_json_dict(Tail(d),
            setitem(out, CommaJoin(Head(d)[1][1], Head(d)[1][2]), Head(d)[2]))

---------------------------------------------------------------------------
(* configure_device, worker.py:142-189 *)

Paths == {<<"/">>, <<"/", "a">>}
Ops == {<<"+">>, <<"-">>}
Values == {<<"v">>, <<"w">>}

\* one element of the diff list of a set(): (op, path, value)
DiffEntries == Ops \X Paths \X Values

DiffLists == UNION {[1..n -> DiffEntries] : n \in 0..MaxChanges}

\* Python values that answer set(): a dict, or a tuple of its elements
SetResponse == [type |-> "dict"]

tuple(elems) == [type |-> "tuple", elems |-> elems]

\* gNMIclient(show_diff="get").set(replace=...), worker.py:158-169: the
\* client answers (diff_list) when the pre/post comparison found
\* changes and the bare response when it found none
gNMIclient_set(diff_list) ==
    IF diff_list # <<>> THEN tuple(<<SetResponse, diff_list>>) ELSE SetResponse

isinstance_tuple(x) == x.type = "tuple"

\* diffs[path].append(text) on a defaultdict(list)
defaultdict_append(diffs, path, text) ==
    setitem(diffs, path,
            Append(IF path \in keys(diffs) THEN get(diffs, path) ELSE <<>>, text))

\* for diff in gnmi_response[1]: diffs[diff[1]].append(f"{diff[0]} {diff[2]}")
RECURSIVE collect_diffs(_, _)
collect_diffs(diff_list, diffs) ==
    IF diff_list = <<>> THEN diffs
    ELSE collect_diffs(Tail(diff_list),
            defaultdict_append(diffs, Head(diff_list)[2],
                               Head(diff_list)[1] \o <<" ">> \o Head(diff_list)[3]))

NO_CHANGES == <<"NO CHANGES">>

\* faulty variant: the else branch of worker.py:182-183 is missing
normalize_response_no_sentinel(gnmi_response) ==
    IF isinstance_tuple(gnmi_response)
    THEN collect_diffs(gnmi_response.elems[2], <<>>)
    ELSE <<>>

\* worker.py:179-183
normalize_response(gnmi_response) ==
    IF isinstance_tuple(gnmi_response)
    THEN collect_diffs(gnmi_response.elems[2], <<>>)
    ELSE defaultdict_append(<<>>, <<"/">>, NO_CHANGES)

\* what the device connection did: no fault, or a fault raised by the
\* connection ("connect"), by set() ("set"), or by the loop of
\* worker.py:180-181 at the entry numbered `at`
NoFault(gnmi_response) == [fault |-> FALSE, gnmi_response |-> gnmi_response]

Fault(stage) == [fault |-> TRUE, stage |-> stage]

LoopFault(gnmi_response, at) ==
    [fault |-> TRUE, stage |-> "loop", gnmi_response |-> gnmi_response, at |-> at]

\* the try block, worker.py:156-183: whether it raised, and the diffs
\* accumulated when it was left
try_block(reply) ==
    IF ~reply.fault
    THEN [raised |-> FALSE, diffs |-> normalize_response(reply.gnmi_response)]
    ELSE IF reply.stage = "loop"
    THEN [raised |-> TRUE,
          diffs |-> collect_diffs(SubSeq(reply.gnmi_response.elems[2], 1, reply.at - 1),
                                  <<>>)]
    ELSE [raised |-> TRUE, diffs |-> <<>>]

\* faulty variant: the handler logs the fault and falls through to the return
configure_device_swallow(device, reply) ==
    [raised |-> FALSE, value |-> <<<<device, try_block(reply).diffs>>>>]

\* the handler of worker.py:185-187 raises; the return of worker.py:189 is
\* reached only when the try block was left without a fault
configure_device(device, reply) ==
    IF try_block(reply).raised
    THEN [raised |-> TRUE]
    ELSE [raised |-> FALSE, value |-> <<<<device, try_block(reply).diffs>>>>]

---------------------------------------------------------------------------
(* Workflow ids and payloads, api.py:23-48, worker.py:218, 246 *)

\* the webhook message, with the branch beside "data" or inside it
ProposedChangePayloads ==
    {[branch |-> b, data |-> [proposed_change_id |-> p]] :
        b \in Branches, p \in ProposedChangeIds}
    \cup
    {[data |-> [proposed_change_id |-> p, branch |-> b]] :
        b \in Branches, p \in ProposedChangeIds}

\* faulty variant: an id of its own for every call
proposed_change_workflow_id_per_call(payload, n) ==
    <<"proposed-change-">> \o payload.data.proposed_change_id \o <<"-", n>>

\* f"proposed-change-{payload['data']['proposed_change_id']}"; n numbers
\* the call and is no part of the id
proposed_change_workflow_id(payload, n) ==
    <<"proposed-change-">> \o payload.data.proposed_change_id

\* f"{device}-proposed-change-{payload['data']['proposed_change_id']}"
child_workflow_id(device, payload) ==
    device \o <<"-proposed-change-">> \o payload.data.proposed_change_id

put(f, k, v) == [x \in DOMAIN f \cup {k} |-> IF x = k THEN v ELSE f[x]]

\* ExecutionStatus = 'Running'
CoordRunning(c) == c.status \in {"INIT", "AWAITING_READINESS", "DISPATCHED"}

ChildRunning(c) == c.status \in {"POLLING_ARTIFACT", "APPLYING"}

---------------------------------------------------------------------------
(* ProposedChangeWorkflow, worker.py:192-229 *)

\* __init__, worker.py:194-196, and the start of run()
NewCoordinator(payload, run) ==
    [run_id |-> run,
     status |-> "INIT",
     payload |-> payload,
     devices |-> <<>>,
     generated_artifacts |-> {},
     received_signals |-> <<>>,
     child_promises |-> <<>>,
     results |-> <<>>]

\* faulty variant: the set is assigned, not added to
update_generated_artifacts_assign(c, target_id, checksum) ==
    [c EXCEPT
        !.generated_artifacts = {CommaJoin(target_id, checksum)},
        !.received_signals = Append(@, <<target_id, checksum>>)]

\* faulty variant: a pair delivered again is taken out
update_generated_artifacts_toggle(c, target_id, checksum) ==
    [c EXCEPT
        !.generated_artifacts =
            IF CommaJoin(target_id, checksum) \in @
            THEN @ \ {CommaJoin(target_id, checksum)}
            ELSE @ \cup {CommaJoin(target_id, checksum)},
        !.received_signals = Append(@, <<target_id, checksum>>)]

\* faulty variant: the pair is added as a tuple, which no key of devices equals
update_generated_artifacts_tuple(c, target_id, checksum) ==
    [c EXCEPT
        !.generated_artifacts = @ \cup {<<target_id, checksum>>},
        !.received_signals = Append(@, <<target_id, checksum>>)]

\* faulty variant: a signal that comes before the diff is answered is dropped
update_generated_artifacts_after_init(c, target_id, checksum) ==
    IF c.status = "INIT" THEN c
    ELSE [c EXCEPT
            !.generated_artifacts = @ \cup {CommaJoin(target_id, checksum)},
            !.received_signals = Append(@, <<target_id, checksum>>)]

\* update_generated_artifacts, worker.py:226-229
update_generated_artifacts(c, target_id, checksum) ==
    [c EXCEPT
        !.generated_artifacts = @ \cup {CommaJoin(target_id, checksum)},
        !.received_signals = Append(@, <<target_id, checksum>>)]

\* faulty variant: one signalled key is enough
barrier_open_some_key(c) ==
    \/ keys(c.devices) = {}
    \/ keys(c.devices) \cap c.generated_artifacts # {}

\* faulty variant: the barrier opens only once a signal has been received
barrier_open_needs_signal(c) ==
    /\ c.generated_artifacts # {}
    /\ keys(c.devices) \subseteq c.generated_artifacts

\* faulty variant: issubset the other way round
barrier_open_reversed(c) == c.generated_artifacts \subseteq keys(c.devices)

\* lambda: set(devices.keys()).issubset(self.generated_artifacts)
barrier_open(c) == keys(c.devices) \subseteq c.generated_artifacts

NewChild(device, expected_checksum, parent) ==
    [status |-> "POLLING_ARTIFACT",
     device |-> device,
     expected_checksum |-> expected_checksum,
     parent |-> parent,
     diffs |-> <<>>]

\* the loop of worker.py:212-221 followed by the start of every promise: a
\* start whose id names a running execution is refused by the engine
RECURSIVE start_children(_, _, _, _, _)
start_children(entries, payload, parent, ch, promises) ==
    IF entries = <<>> THEN [children |-> ch, child_promises |-> promises]
    ELSE LET target_checksum == Head(entries)[1]
             device == Head(entries)[2]
             expected_checksum == split(target_checksum, ",")[2]
             id == child_workflow_id(device, payload)
             refused == id \in DOMAIN ch /\ ChildRunning(ch[id])
         IN  start_children(Tail(entries), payload, parent,
                IF refused THEN ch
                ELSE put(ch, id, NewChild(device, expected_checksum, parent)),
                Append(promises, [id |-> id, started |-> ~refused]))

\* what awaiting one child promise gives: its result, its failure, or not yet
promise_state(p, ch) ==
    IF ~p.started THEN "failed"
    ELSE IF ch[p.id].status = "DONE" THEN "done"
    ELSE IF ch[p.id].status \in {"FAILED", "TERMINATED"} THEN "failed"
    ELSE "pending"

\* faulty variant: gather(..., return_exceptions=True) with the failures dropped
gather_return_exceptions(promises, ch) ==
    IF \A i \in DOMAIN promises : promise_state(promises[i], ch) # "pending"
    THEN [state |-> "done",
          results |-> SelectSeq(
              [i \in DOMAIN promises |->
                  IF promise_state(promises[i], ch) = "done"
                  THEN ch[promises[i].id].diffs ELSE <<>>],
              LAMBDA r : r # <<>>)]
    ELSE [state |-> "pending"]

\* faulty variant: the join returns as soon as one child has returned
gather_first_completed(promises, ch) ==
    IF \E i \in DOMAIN promises : promise_state(promises[i], ch) = "failed"
    THEN [state |-> "failed"]
    ELSE IF \E i \in DOMAIN promises : promise_state(promises[i], ch) = "done"
    THEN [state |-> "done",
          results |-> [i \in DOMAIN promises |-> ch[promises[i].id].diffs]]
    ELSE [state |-> "pending"]

\* asyncio.gather(*child_promises), worker.py:222: all results in the order
\* of the promises, or the first failure
gather(promises, ch) ==
    IF \E i \in DOMAIN promises : promise_state(promises[i], ch) = "failed"
    THEN [state |-> "failed"]
    ELSE IF \A i \in DOMAIN promises : promise_state(promises[i], ch) = "done"
    THEN [state |-> "done",
          results |-> [i \in DOMAIN promises |-> ch[promises[i].id].diffs]]
    ELSE [state |-> "pending"]

\* the engine closes the children still running when their parent closes
\* (no parent_close_policy is given at worker.py:215-220)
close_children(ch, parent) ==
    [id \in DOMAIN ch |->
        IF ch[id].parent = parent /\ ChildRunning(ch[id])
        THEN [ch[id] EXCEPT !.status = "TERMINATED"]
        ELSE ch[id]]

---------------------------------------------------------------------------
(* The coordination machine *)

IdleRouter ==
    [pc |-> "idle", target_id |-> <<>>, checksum |-> <<>>,
     running_workflow_ids |-> <<>>, listed |-> {}]

\* no ConfigureDevice execution is under study
NoProcess == [status |-> "NONE"]

NoWorld == [store |-> <<>>, device_config |-> <<>>]

Init ==
    /\ coord = <<>>
    /\ children = <<>>
    /\ router = IdleRouter
    /\ n_starts = 0
    /\ n_events = 0
    /\ call = [op |-> "none"]
    /\ portkey = <<>>
    /\ proc = NoProcess
    /\ world = NoWorld

\* POST /proposed_change_workflow: run_proposed_change_workflow, api.py:23-34.
\* The engine refuses a start whose id names a running execution.
StartProposedChange(payload) ==
    /\ n_starts < MaxStarts
    /\ n_starts' = n_starts + 1
    /\ LET id == proposed_change_workflow_id(payload, n_starts + 1)
       IN  IF id \in DOMAIN coord /\ CoordRunning(coord[id])
           THEN UNCHANGED coord
           ELSE coord' = put(coord, id, NewCoordinator(payload, n_starts + 1))
    /\ UNCHANGED <<children, router, n_events, call, portkey, proc, world>>

\* what the activity can answer the workflow, over the stores and the
\* iteration orders
StoreDiffs ==
    {to_json_dict(get_updated_devices(x[1], x[2], x[3]), <<>>) :
        x \in {y \in SmallSubsets(StoreTuples) \X SmallSubsets(StoreTuples) \X
                     UNION {Orders(A) : A \in SmallSubsets(StoreTuples)} :
                    y[3] \in Orders(y[1])}}

\* the diff entries the other executions hold
Changed(co, id) ==
    Cardinality({x \in (DOMAIN co \ {id}) \X (1..MaxArtifacts) :
                    x[2] \in DOMAIN co[x[1]].devices})

\* worker.py:202-207: payload["branch"] is read and the activity answers.
\* The branches under rollout differ from main in MaxChanged artifacts at most.
CoordDiffComputed(id) ==
    /\ coord[id].status = "INIT"
    /\ "branch" \in DOMAIN coord[id].payload
    /\ \E devices \in StoreDiffs :
         /\ Len(devices) + Changed(coord, id) <= MaxChanged
         /\ coord' = [coord EXCEPT ![id].devices = devices,
                                   ![id].status = "AWAITING_READINESS"]
    /\ UNCHANGED <<children, router, n_starts, n_events, call, portkey, proc, world>>

\* worker.py:202-207: the activity fails until schedule_to_close_timeout
CoordActivityFailed(id) ==
    /\ coord[id].status = "INIT"
    /\ "branch" \in DOMAIN coord[id].payload
    /\ coord' = [coord EXCEPT ![id].status = "FAILED"]
    /\ UNCHANGED <<children, router, n_starts, n_events, call, portkey, proc, world>>

\* worker.py:209-222: the workflow task in which wait_condition is true
CoordDispatch(id) ==
    /\ coord[id].status = "AWAITING_READINESS"
    /\ barrier_open(coord[id])
    /\ LET c == coord[id]
           r == start_children(items(c.devices), c.payload, <<id, c.run_id>>,
                               children, <<>>)
       IN  /\ children' = r.children
           /\ coord' = [coord EXCEPT
                ![id].child_promises = r.child_promises,
                ![id].status = IF r.child_promises = <<>> THEN "GATHERED"
                               ELSE "DISPATCHED"]
    /\ UNCHANGED <<router, n_starts, n_events, call, portkey, proc, world>>

\* worker.py:222-224: every child returned
CoordGathered(id) ==
    /\ coord[id].status = "DISPATCHED"
    /\ LET g == gather(coord[id].child_promises, children)
       IN  /\ g.state = "done"
           /\ coord' = [coord EXCEPT ![id].results = g.results,
                                     ![id].status = "GATHERED"]
    /\ UNCHANGED <<children, router, n_starts, n_events, call, portkey, proc, world>>

\* worker.py:222: gather raises the first failure and run() ends with it
CoordGatherFailed(id) ==
    /\ coord[id].status = "DISPATCHED"
    /\ gather(coord[id].child_promises, children).state = "failed"
    /\ coord' = [coord EXCEPT ![id].status = "FAILED"]
    /\ children' = close_children(children, <<id, coord[id].run_id>>)
    /\ UNCHANGED <<router, n_starts, n_events, call, portkey, proc, world>>

---------------------------------------------------------------------------
(* ConfigureDevice, worker.py:254-270 *)

\* what the device answers in the coordination machine
SpecReplies ==
    {NoFault(gNMIclient_set(l)) :
        l \in {<<>>, <<<<<<"+">>, <<"/", "a">>, <<"v">>>>>>}}

\* get_artifact returned, worker.py:258-263
ChildArtifactReady(id) ==
    /\ children[id].status = "POLLING_ARTIFACT"
    /\ children' = [children EXCEPT ![id].status = "APPLYING"]
    /\ UNCHANGED <<coord, router, n_starts, n_events, call, portkey, proc, world>>

\* configure_device returned, worker.py:264-270
ChildApplied(id) ==
    /\ children[id].status = "APPLYING"
    /\ \E reply \in SpecReplies :
         children' = [children EXCEPT
            ![id].diffs = configure_device(children[id].device, reply).value,
            ![id].status = "DONE"]
    /\ UNCHANGED <<coord, router, n_starts, n_events, call, portkey, proc, world>>

\* either activity failed until its schedule_to_close_timeout
ChildActivityFailed(id) ==
    /\ ChildRunning(children[id])
    /\ children' = [children EXCEPT ![id].status = "FAILED"]
    /\ UNCHANGED <<coord, router, n_starts, n_events, call, portkey, proc, world>>

---------------------------------------------------------------------------
(* signal_running_workflows, api.py:51-72 *)

\* faulty variant: the query without ExecutionStatus = 'Running'
list_workflows_any_status(co) == DOMAIN co

\* "WorkflowType = 'ProposedChangeWorkflow' AND ExecutionStatus = 'Running'"
list_workflows(co) == {id \in DOMAIN co : CoordRunning(co[id])}

\* POST /artifact_updated, api.py:91-94 and 51-65: the list, and the return
\* when it is empty
ArtifactUpdated(target_id, checksum) ==
    /\ router.pc # "signalling"
    /\ n_events < MaxEvents
    /\ n_events' = n_events + 1
    /\ \E ids \in Orders(list_workflows(coord)) :
         router' = [pc |-> IF ids = <<>> THEN "returned" ELSE "signalling",
                    target_id |-> target_id,
                    checksum |-> checksum,
                    running_workflow_ids |-> ids,
                    listed |-> {<<ids[i], coord[ids[i]].run_id>> : i \in DOMAIN ids}]
    /\ UNCHANGED <<coord, children, n_starts, call, portkey, proc, world>>

\* one turn of the loop of api.py:67-72: the signal reaches the execution
\* the id names if it is running, and raises otherwise
RouterSignal ==
    /\ router.pc = "signalling"
    /\ LET id == Head(router.running_workflow_ids)
           rest == Tail(router.running_workflow_ids)
       IN  IF CoordRunning(coord[id])
           THEN /\ coord' = [coord EXCEPT ![id] =
                        update_generated_artifacts(@, router.target_id, router.checksum)]
                /\ router' = [router EXCEPT
                        !.running_workflow_ids = rest,
                        !.pc = IF rest = <<>> THEN "returned" ELSE "signalling"]
           ELSE /\ router' = [router EXCEPT !.pc = "raised"]
                /\ UNCHANGED coord
    /\ UNCHANGED <<children, n_starts, n_events, call, portkey, proc, world>>

Next ==
    \/ \E payload \in ProposedChangePayloads : StartProposedChange(payload)
    \/ \E id \in DOMAIN coord : CoordDiffComputed(id)
    \/ \E id \in DOMAIN coord : CoordActivityFailed(id)
    \/ \E id \in DOMAIN coord : CoordDispatch(id)
    \/ \E id \in DOMAIN coord : CoordGathered(id)
    \/ \E id \in DOMAIN coord : CoordGatherFailed(id)
    \/ \E id \in DOMAIN children : ChildArtifactReady(id)
    \/ \E id \in DOMAIN children : ChildApplied(id)
    \/ \E id \in DOMAIN children : ChildActivityFailed(id)
    \/ \E t \in ObjectIds, c \in Checksums : ArtifactUpdated(t, c)
    \/ RouterSignal

Spec == Init /\ [][Next]_vars

\* the ids a trigger can make
WorkflowIds ==
    {proposed_change_workflow_id(payload, n) :
        payload \in ProposedChangePayloads, n \in 1..MaxStarts}

\* a worker polls the task queue (worker.py:273-278): a workflow task that
\* can run does run
Fairness ==
    \A id \in WorkflowIds :
        /\ WF_vars(id \in DOMAIN coord /\ CoordDispatch(id))
        /\ WF_vars(id \in DOMAIN coord /\ CoordGathered(id))
        /\ WF_vars(id \in DOMAIN coord /\ CoordGatherFailed(id))

SpecFair == Spec /\ Fairness

---------------------------------------------------------------------------
(* PortkeyWorkflow, worker.py:232-251, and its trigger, api.py:37-48 *)

\* {"data": {"target_id": ..., "checksum": ...}}
PortkeyPayloads ==
    {[data |-> [target_id |-> t, checksum |-> c]] : t \in ObjectIds, c \in Checksums}

\* f"portkey-{payload['data']['target_id']}"
portkey_workflow_id(payload) == <<"portkey-">> \o payload.data.target_id

\* f"{device}-portkey-{payload['data']['target_id']}"
portkey_child_workflow_id(device, payload) ==
    device \o <<"-portkey-">> \o payload.data.target_id

\* get_device, worker.py:136-139: the name of the device with this id
get_device(device_id) == display_label(device_id)

\* faulty variant: the child is told to expect the target id
portkey_child_args_target(device, payload) == <<device, payload.data.target_id>>

\* args=[device, payload["data"]["checksum"]], worker.py:245
portkey_child_args(device, payload) == <<device, payload.data.checksum>>

PortkeyRunning(c) == c.status \in {"RESOLVING", "DISPATCHED"}

NewPortkey(payload, run) ==
    [run_id |-> run,
     status |-> "RESOLVING",
     payload |-> payload,
     device |-> <<>>,
     child_promises |-> <<>>,
     results |-> <<>>]

\* POST /portkey_workflow: run_portkey_workflow, api.py:37-48
StartPortkey(payload) ==
    /\ n_starts < MaxStarts
    /\ n_starts' = n_starts + 1
    /\ LET id == portkey_workflow_id(payload)
       IN  IF id \in DOMAIN portkey /\ PortkeyRunning(portkey[id])
           THEN UNCHANGED portkey
           ELSE portkey' = put(portkey, id, NewPortkey(payload, n_starts + 1))
    /\ UNCHANGED <<coord, children, router, n_events, call, proc, world>>

\* worker.py:236-248: get_device answered and the child is asked for
PortkeyResolved(id) ==
    /\ portkey[id].status = "RESOLVING"
    /\ LET c == portkey[id]
           device == get_device(c.payload.data.target_id)
           args == portkey_child_args(device, c.payload)
           ch == portkey_child_workflow_id(device, c.payload)
           refused == ch \in DOMAIN children /\ ChildRunning(children[ch])
       IN  /\ children' = IF refused THEN children
                          ELSE put(children, ch, NewChild(args[1], args[2], <<id, c.run_id>>))
           /\ portkey' = [portkey EXCEPT
                ![id].device = device,
                ![id].child_promises = <<[id |-> ch, started |-> ~refused]>>,
                ![id].status = "DISPATCHED"]
    /\ UNCHANGED <<coord, router, n_starts, n_events, call, proc, world>>

\* worker.py:236-241: get_device fails until schedule_to_close_timeout
PortkeyActivityFailed(id) ==
    /\ portkey[id].status = "RESOLVING"
    /\ portkey' = [portkey EXCEPT ![id].status = "FAILED"]
    /\ UNCHANGED <<coord, children, router, n_starts, n_events, call, proc, world>>

\* worker.py:243-251: the child returned and run() returns its result
PortkeyChildReturned(id) ==
    /\ portkey[id].status = "DISPATCHED"
    /\ promise_state(portkey[id].child_promises[1], children) = "done"
    /\ portkey' = [portkey EXCEPT
            ![id].results = children[portkey[id].child_promises[1].id].diffs,
            ![id].status = "DONE"]
    /\ UNCHANGED <<coord, children, router, n_starts, n_events, call, proc, world>>

\* worker.py:243-248: the await raises the child's failure
PortkeyChildFailed(id) ==
    /\ portkey[id].status = "DISPATCHED"
    /\ promise_state(portkey[id].child_promises[1], children) = "failed"
    /\ portkey' = [portkey EXCEPT ![id].status = "FAILED"]
    /\ UNCHANGED <<coord, children, router, n_starts, n_events, call, proc, world>>

NextPortkey ==
    \/ Next
    \/ \E payload \in PortkeyPayloads : StartPortkey(payload)
    \/ \E id \in DOMAIN portkey : PortkeyResolved(id)
    \/ \E id \in DOMAIN portkey : PortkeyActivityFailed(id)
    \/ \E id \in DOMAIN portkey : PortkeyChildReturned(id)
    \/ \E id \in DOMAIN portkey : PortkeyChildFailed(id)

\* both triggers, both workflows
SpecPortkey == Init /\ [][NextPortkey]_vars

---------------------------------------------------------------------------
(* One ConfigureDevice execution with its activity attempts,               *)
(* worker.py:120-133, 142-189, 254-270.                                    *)
(*                                                                         *)
(* The engine runs an activity in attempts.  An attempt that has not       *)
(* reported within start_to_close_timeout is given up by the engine and    *)
(* another one is scheduled; at schedule_to_close_timeout the activity     *)
(* fails.  Neither activity heartbeats or awaits, so the code of an        *)
(* attempt the engine gave up keeps running on the worker to its end;      *)
(* what it then reports is dropped.                                        *)

\* what one poll reads: (checksum, storage_id) of the device's artifact
Observations == Checksums \X StorageIds

\* client.object_store.get(identifier=storage_id) and yaml.load,
\* worker.py:131-132: the document stored under the identifier
load_artifact(identifier) == <<"v", identifier[2]>>

Documents == {load_artifact(sid) : sid \in StorageIds}

\* the changes a full replace at the root makes, as set() reports them
device_diff(config, artifact) ==
    IF config = artifact THEN <<>>
    ELSE <<<<<<"-">>, <<"/">>, config>>, <<<<"+">>, <<"/">>, artifact>>>>

NewAttempt(activity, artifact) ==
    [activity |-> activity,
     current |-> TRUE,
     pc |-> IF activity = "get_artifact" THEN "sleep" ELSE "connect",
     artifact_rendered |-> FALSE,
     checksum |-> <<>>,
     storage_id |-> <<>>,
     data |-> <<>>,
     first_data |-> <<>>,
     artifact |-> artifact,
     gnmi_response |-> SetResponse,
     outcome |-> "none"]

\* an attempt that has ended: its locals are gone, what its polls read
\* stays on record
Ended(att, outcome) ==
    [NewAttempt(att.activity, <<>>) EXCEPT
        !.current = FALSE, !.pc = "ended", !.outcome = outcome,
        !.data = IF outcome = "returned" THEN att.data ELSE <<>>,
        !.first_data = IF outcome = "returned" THEN att.first_data ELSE <<>>]

\* faulty variant: storage_id keeps the value of the first poll
get_artifact_poll_first_storage_id(att, data, expected_checksum) ==
    [att EXCEPT
        !.data = data,
        !.first_data = IF @ = <<>> THEN data ELSE @,
        !.checksum = data[1],
        !.storage_id = IF @ = <<>> THEN data[2] ELSE @,
        !.artifact_rendered = (data[1] = expected_checksum),
        !.pc = IF data[1] = expected_checksum THEN "fetch" ELSE "sleep"]

\* worker.py:126-129 and the test of the while at 124; data and first_data
\* record what this poll and the first poll of the attempt read
get_artifact_poll(att, data, expected_checksum) ==
    [att EXCEPT
        !.data = data,
        !.first_data = IF @ = <<>> THEN data ELSE @,
        !.checksum = data[1],
        !.storage_id = data[2],
        !.artifact_rendered = (data[1] = expected_checksum),
        !.pc = IF data[1] = expected_checksum THEN "fetch" ELSE "sleep"]

NewProcess(device, expected_checksum) ==
    [status |-> "POLLING_ARTIFACT",
     device |-> device,
     expected_checksum |-> expected_checksum,
     activity |-> "get_artifact",
     attempts |-> <<>>,
     artifact |-> <<>>,
     result |-> <<>>,
     computed |-> <<>>]

ProcessRunning(p) == p.status \in {"POLLING_ARTIFACT", "ARTIFACT_READY", "APPLYING"}

Executing(att) == att.pc # "ended"

\* the attempts made for the activity the execution waits for
AttemptsOf(p) == {i \in DOMAIN p.attempts : p.attempts[i].activity = p.activity}

\* the engine gives up every attempt it still waits for
give_up(attempts) == [i \in DOMAIN attempts |-> [attempts[i] EXCEPT !.current = FALSE]]

InitDevice ==
    /\ coord = <<>>
    /\ children = <<>>
    /\ router = IdleRouter
    /\ n_starts = 0
    /\ n_events = 0
    /\ call = [op |-> "none"]
    /\ portkey = <<>>
    /\ \E device \in Labels, expected_checksum \in Checksums :
         proc = NewProcess(device, expected_checksum)
    /\ \E store \in Observations, config \in Documents :
         world = [store |-> store, device_config |-> config]

\* the artifact of the device is rendered again
StoreRender ==
    /\ ProcessRunning(proc) \/ \E i \in DOMAIN proc.attempts : Executing(proc.attempts[i])
    /\ \E store \in Observations \ {world.store} :
         world' = [world EXCEPT !.store = store]
    /\ UNCHANGED <<coord, children, router, n_starts, n_events, call, portkey, proc>>

\* the engine hands the pending activity to the worker: a first attempt,
\* or a retry while the deadline allows one
AttemptStart ==
    /\ ProcessRunning(proc)
    /\ \A i \in DOMAIN proc.attempts : ~proc.attempts[i].current
    /\ Cardinality(AttemptsOf(proc)) < MaxAttempts
    /\ proc' = [proc EXCEPT
            !.attempts = Append(@, NewAttempt(proc.activity, proc.artifact))]
    /\ UNCHANGED <<coord, children, router, n_starts, n_events, call, portkey, world>>

\* start_to_close_timeout, worker.py:262, 268
StartToCloseTimeout(i) ==
    /\ proc.attempts[i].current
    /\ proc' = [proc EXCEPT
            !.attempts[i].current = FALSE,
            !.status = IF @ = "ARTIFACT_READY" THEN "POLLING_ARTIFACT" ELSE @]
    /\ UNCHANGED <<coord, children, router, n_starts, n_events, call, portkey, world>>

\* schedule_to_close_timeout, worker.py:261, 267: the await raises and
\* run() ends with the failure
ScheduleToCloseTimeout ==
    /\ ProcessRunning(proc)
    /\ proc' = [proc EXCEPT
            !.attempts = give_up(@),
            !.activity = "none",
            !.status = "FAILED"]
    /\ UNCHANGED <<coord, children, router, n_starts, n_events, call, portkey, world>>

\* the parent closed first: the engine closes the child
\* (no parent_close_policy is given at worker.py:215-220, 243-248)
ParentClosed ==
    /\ ProcessRunning(proc)
    /\ proc' = [proc EXCEPT
            !.attempts = give_up(@),
            !.activity = "none",
            !.status = "TERMINATED"]
    /\ UNCHANGED <<coord, children, router, n_starts, n_events, call, portkey, world>>

\* an attempt raised: the engine, if it still waited for it, will retry
attempt_raised(p, i) ==
    [p EXCEPT
        !.attempts[i] = Ended(@, "raised"),
        !.status = IF p.attempts[i].current /\ @ = "ARTIFACT_READY"
                   THEN "POLLING_ARTIFACT" ELSE @]

\* sleep(3), worker.py:125
GetArtifactSleep(i) ==
    /\ proc.attempts[i].activity = "get_artifact"
    /\ proc.attempts[i].pc = "sleep"
    /\ proc' = [proc EXCEPT !.attempts[i].pc = "query"]
    /\ UNCHANGED <<coord, children, router, n_starts, n_events, call, portkey, world>>

\* worker.py:126-129, then the test of the while: the query answers what
\* the store holds now, or raises
GetArtifactQuery(i) ==
    /\ proc.attempts[i].activity = "get_artifact"
    /\ proc.attempts[i].pc = "query"
    /\ \/ LET att == get_artifact_poll(proc.attempts[i], world.store,
                                       proc.expected_checksum)
          IN  proc' = [proc EXCEPT
                !.attempts[i] = att,
                !.status = IF att.current /\ att.pc = "fetch"
                           THEN "ARTIFACT_READY" ELSE @]
       \/ proc' = attempt_raised(proc, i)
    /\ UNCHANGED <<coord, children, router, n_starts, n_events, call, portkey, world>>

\* worker.py:131-133: the content is fetched and returned; the engine
\* takes the result of the attempt it waits for and of no other
GetArtifactFetch(i) ==
    /\ proc.attempts[i].activity = "get_artifact"
    /\ proc.attempts[i].pc = "fetch"
    /\ \/ LET artifact == load_artifact(proc.attempts[i].storage_id)
          IN  IF proc.attempts[i].current
              THEN proc' = [proc EXCEPT
                        !.attempts[i] = Ended(@, "returned"),
                        !.artifact = artifact,
                        !.activity = "configure_device",
                        !.status = "APPLYING"]
              ELSE proc' = [proc EXCEPT !.attempts[i] = Ended(@, "dropped")]
       \/ proc' = attempt_raised(proc, i)
    /\ UNCHANGED <<coord, children, router, n_starts, n_events, call, portkey, world>>

\* worker.py:158-169: the connection and set(replace=[("/", artifact)])
ConfigureSet(i) ==
    /\ proc.attempts[i].activity = "configure_device"
    /\ proc.attempts[i].pc = "connect"
    /\ \/ /\ proc' = [proc EXCEPT
                !.attempts[i].pc = "normalize",
                !.attempts[i].gnmi_response =
                    gNMIclient_set(device_diff(world.device_config,
                                               proc.attempts[i].artifact))]
          /\ world' = [world EXCEPT !.device_config = proc.attempts[i].artifact]
       \/ /\ \E stage \in {"connect", "set"} :
                configure_device(proc.device, Fault(stage)).raised
          /\ proc' = attempt_raised(proc, i)
          /\ UNCHANGED world
    /\ UNCHANGED <<coord, children, router, n_starts, n_events, call, portkey>>

\* the engine takes the result of the attempt it waits for
accept_result(p, i) == p.attempts[i].current

\* worker.py:171-189: the answer is normalised and returned
ConfigureReturn(i) ==
    /\ proc.attempts[i].activity = "configure_device"
    /\ proc.attempts[i].pc = "normalize"
    /\ LET r == configure_device(proc.device, NoFault(proc.attempts[i].gnmi_response))
       IN  IF accept_result(proc, i)
           THEN proc' = [proc EXCEPT
                    !.attempts[i] = Ended(@, "returned"),
                    !.computed = Append(@, r.value),
                    !.result = r.value,
                    !.activity = "none",
                    !.status = "DONE"]
           ELSE proc' = [proc EXCEPT
                    !.attempts[i] = Ended(@, "dropped"),
                    !.computed = Append(@, r.value)]
    /\ UNCHANGED <<coord, children, router, n_starts, n_events, call, portkey, world>>

AttemptStep(i) ==
    /\ i \in DOMAIN proc.attempts
    /\ \/ GetArtifactSleep(i)
       \/ GetArtifactQuery(i)
       \/ GetArtifactFetch(i)
       \/ ConfigureSet(i)
       \/ ConfigureReturn(i)

NextDevice ==
    \/ StoreRender
    \/ AttemptStart
    \/ \E i \in DOMAIN proc.attempts : StartToCloseTimeout(i)
    \/ ScheduleToCloseTimeout
    \/ ParentClosed
    \/ \E i \in DOMAIN proc.attempts : GetArtifactSleep(i)
    \/ \E i \in DOMAIN proc.attempts : GetArtifactQuery(i)
    \/ \E i \in DOMAIN proc.attempts : GetArtifactFetch(i)
    \/ \E i \in DOMAIN proc.attempts : ConfigureSet(i)
    \/ \E i \in DOMAIN proc.attempts : ConfigureReturn(i)

SpecDevice == InitDevice /\ [][NextDevice]_vars

\* the code of an attempt runs on, and the engine's deadline passes
DeviceFairness ==
    /\ \A i \in 1..(2 * MaxAttempts) : WF_vars(AttemptStep(i))
    /\ WF_vars(ScheduleToCloseTimeout)

SpecDeviceFair == SpecDevice /\ DeviceFairness

---------------------------------------------------------------------------
(* The activities as functions of what their collaborators answer *)

InitCalls ==
    /\ coord = <<>>
    /\ children = <<>>
    /\ router = IdleRouter
    /\ n_starts = 0
    /\ n_events = 0
    /\ call = [op |-> "idle"]
    /\ portkey = <<>>
    /\ proc = NoProcess
    /\ world = NoWorld

\* get_updated_devices, worker.py:91-117, on two query results
DiffCall ==
    /\ call.op = "idle"
    /\ \E A \in SmallSubsets(ArtifactTuples), B \in SmallSubsets(ArtifactTuples) :
         \E order \in Orders(A) :
            call' = [op |-> "get_updated_devices",
                     branch_artifacts |-> A,
                     main_artifacts |-> B,
                     devices |-> get_updated_devices(A, B, order)]
    /\ UNCHANGED <<coord, children, router, n_starts, n_events, portkey, proc, world>>

\* the replies of a device whose set() finds the changes diff_list
DeviceReplies(diff_list) ==
    {NoFault(gNMIclient_set(diff_list)), Fault("connect"), Fault("set")}
    \cup {LoopFault(gNMIclient_set(diff_list), at) : at \in 1..Len(diff_list)}

\* configure_device, worker.py:142-189, on what the device did
ApplyCall ==
    /\ call.op = "idle"
    /\ \E device \in Labels, diff_list \in DiffLists :
         \E reply \in DeviceReplies(diff_list) :
            call' = [op |-> "configure_device",
                     device |-> device,
                     diff_list |-> diff_list,
                     reply |-> reply,
                     result |-> configure_device(device, reply)]
    /\ UNCHANGED <<coord, children, router, n_starts, n_events, portkey, proc, world>>

CallReturn ==
    /\ call.op \in {"get_updated_devices", "configure_device"}
    /\ call' = [op |-> "idle"]
    /\ UNCHANGED <<coord, children, router, n_starts, n_events, portkey, proc, world>>

NextCalls == DiffCall \/ ApplyCall \/ CallReturn

SpecCalls == InitCalls /\ [][NextCalls]_vars

---------------------------------------------------------------------------
(* Claims *)

SameRun(id) ==
    /\ id \in DOMAIN coord
    /\ id \in DOMAIN coord'
    /\ coord'[id].run_id = coord[id].run_id

ChildStarted(ch) ==
    /\ children'[ch].status = "POLLING_ARTIFACT"
    /\ ch \in DOMAIN children => children[ch].status # "POLLING_ARTIFACT"

\* C1: a step in which a run gets its child promises, or in which a child
\* execution starts, is taken from a state in which every key of the run's
\* devices is in its generated_artifacts.
C1_BarrierSafety ==
    [][/\ \A id \in DOMAIN coord' :
            (/\ SameRun(id)
             /\ coord[id].child_promises = <<>>
             /\ coord'[id].child_promises # <<>>)
                => keys(coord[id].devices) \subseteq coord[id].generated_artifacts
       /\ \A ch \in DOMAIN children' :
            ChildStarted(ch) =>
                LET p == children'[ch].parent
                IN  /\ p[1] \in DOMAIN coord
                    /\ coord[p[1]].run_id = p[2]
                    /\ keys(coord[p[1]].devices)
                            \subseteq coord[p[1]].generated_artifacts]_vars

\* a run that waited for two keys and has dispatched its two children
C1_Witness ==
    \E id \in DOMAIN coord :
        /\ coord[id].status = "DISPATCHED"
        /\ Len(coord[id].child_promises) = 2
        /\ Len(coord[id].received_signals) = 2
        /\ \A i \in 1..2 :
             children[coord[id].child_promises[i].id].parent = <<id, coord[id].run_id>>

Signalled(c, key) ==
    \E j \in DOMAIN c.received_signals :
        CommaJoin(c.received_signals[j][1], c.received_signals[j][2]) = key

AllSignalled(id, r) ==
    /\ id \in DOMAIN coord
    /\ coord[id].run_id = r
    /\ coord[id].status = "AWAITING_READINESS"
    /\ coord[id].devices # <<>>
    /\ \A i \in DOMAIN coord[id].devices : Signalled(coord[id], coord[id].devices[i][1])

HasDispatched(id, r) ==
    /\ id \in DOMAIN coord
    /\ coord[id].run_id = r
    /\ coord[id].status \in {"DISPATCHED", "GATHERED", "FAILED"}
    /\ Len(coord[id].child_promises) = Len(coord[id].devices)

\* C2: a run that holds a non-empty diff and has received a signal
\* (target_id, checksum) for every key of it eventually leaves
\* AWAITING_READINESS with one child promise per diff entry.
C2_SignalUnblocks ==
    \A id \in WorkflowIds : \A r \in 1..MaxStarts :
        AllSignalled(id, r) ~> HasDispatched(id, r)

\* the run of the example: one entry, one signal, one child
C2_Witness ==
    \E id \in DOMAIN coord :
        /\ coord[id].status = "DISPATCHED"
        /\ Len(coord[id].devices) = 1
        /\ coord[id].received_signals =
                <<split(coord[id].devices[1][1], ",")>>
        /\ Len(coord[id].child_promises) = 1
        /\ children[coord[id].child_promises[1].id].expected_checksum =
                coord[id].received_signals[1][2]

\* C3: no step of a run takes an element out of its generated_artifacts,
\* and no step takes the run out of the engine's record while it is the
\* newest of its id.
C3_ReadinessMonotone ==
    [][\A id \in DOMAIN coord :
            /\ id \in DOMAIN coord'
            /\ SameRun(id) =>
                coord[id].generated_artifacts \subseteq coord'[id].generated_artifacts]_vars

\* a run that has gathered after two different signals
C3_Witness ==
    \E id \in DOMAIN coord :
        /\ coord[id].status = "GATHERED"
        /\ Cardinality(coord[id].generated_artifacts) = 2

Delivered(id) ==
    /\ SameRun(id)
    /\ Len(coord'[id].received_signals) = Len(coord[id].received_signals) + 1

\* C4: the delivery of a pair that generated_artifacts already holds
\* leaves generated_artifacts, and with it the barrier, as they were.
C4_IdempotentSignal ==
    [][\A id \in DOMAIN coord :
            (/\ Delivered(id)
             /\ LET s == coord'[id].received_signals[Len(coord'[id].received_signals)]
                IN  CommaJoin(s[1], s[2]) \in coord[id].generated_artifacts)
                => /\ coord'[id].generated_artifacts = coord[id].generated_artifacts
                   /\ (keys(coord'[id].devices) \subseteq coord'[id].generated_artifacts)
                        = (keys(coord[id].devices) \subseteq coord[id].generated_artifacts)]_vars

\* the same pair delivered twice to one run
C4_Witness ==
    \E id \in DOMAIN coord :
        /\ Len(coord[id].received_signals) = 2
        /\ coord[id].received_signals[1] = coord[id].received_signals[2]
        /\ coord[id].generated_artifacts =
                {CommaJoin(coord[id].received_signals[1][1],
                           coord[id].received_signals[1][2])}

ChildOf(id, r, i) == children[coord[id].child_promises[i].id]

\* a child the run started has failed
ChildFailed(id, r) ==
    /\ id \in DOMAIN coord
    /\ coord[id].run_id = r
    /\ \E i \in DOMAIN coord[id].child_promises :
         /\ coord[id].child_promises[i].started
         /\ ChildOf(id, r, i).parent = <<id, r>>
         /\ ChildOf(id, r, i).status = "FAILED"

NoPartialResult ==
    \A id \in DOMAIN coord :
        coord[id].status = "GATHERED" =>
            /\ Len(coord[id].results) = Len(coord[id].child_promises)
            /\ \A i \in DOMAIN coord[id].child_promises :
                 /\ coord[id].child_promises[i].started
                 /\ ChildOf(id, coord[id].run_id, i).parent = <<id, coord[id].run_id>>
                 /\ ChildOf(id, coord[id].run_id, i).status = "DONE"
                 /\ coord[id].results[i] = ChildOf(id, coord[id].run_id, i).diffs

\* C5: a run one of whose children failed ends FAILED, and a run that ends
\* GATHERED holds the result of every child it started, all of them DONE.
C5_GatherFailure ==
    /\ []NoPartialResult
    /\ \A id \in WorkflowIds : \A r \in 1..MaxStarts :
         ChildFailed(id, r) ~>
            (id \in DOMAIN coord /\ coord[id].run_id = r /\ coord[id].status = "FAILED")

\* a failed run with one child DONE and one child FAILED
C5_Witness ==
    \E id \in DOMAIN coord :
        /\ coord[id].status = "FAILED"
        /\ Len(coord[id].child_promises) = 2
        /\ \E i, j \in 1..2 :
             /\ coord[id].child_promises[i].started
             /\ coord[id].child_promises[j].started
             /\ ChildOf(id, coord[id].run_id, i).status = "DONE"
             /\ ChildOf(id, coord[id].run_id, j).status = "FAILED"

OneRunPerKey ==
    \A a, b \in DOMAIN coord :
        (/\ CoordRunning(coord[a])
         /\ CoordRunning(coord[b])
         /\ coord[a].payload.data.proposed_change_id
                = coord[b].payload.data.proposed_change_id)
            => a = b

\* C6: at most one running ProposedChangeWorkflow holds a given
\* proposed_change_id, and a running child execution is never replaced by
\* another start of its id.
C6_IdempotentDispatch ==
    /\ []OneRunPerKey
    /\ [][\A ch \in DOMAIN children :
            ChildRunning(children[ch]) =>
                /\ ch \in DOMAIN children'
                /\ children'[ch].parent = children[ch].parent]_vars

\* a second trigger for the id of a run that has dispatched was refused
C6_Witness ==
    /\ n_starts = 2
    /\ \E id \in DOMAIN coord :
         /\ DOMAIN coord = {id}
         /\ coord[id].run_id = 1
         /\ coord[id].status = "DISPATCHED"

ListedNothing ==
    /\ n_events' = n_events + 1
    /\ \A id \in DOMAIN coord : ~CoordRunning(coord[id])

\* C9: an event handled while no ProposedChangeWorkflow is running changes
\* no execution and leaves nothing to deliver; a run starts with empty
\* generated_artifacts; a closed run receives no signal; a signal reaches
\* only the execution the loop of the call in flight is at.
C9_SignalDrop ==
    [][/\ ListedNothing =>
            /\ coord' = coord
            /\ router'.pc = "returned"
            /\ router'.running_workflow_ids = <<>>
       /\ \A id \in DOMAIN coord' :
            ~SameRun(id) =>
                /\ coord'[id].generated_artifacts = {}
                /\ coord'[id].received_signals = <<>>
       /\ \A id \in DOMAIN coord :
            (SameRun(id) /\ ~CoordRunning(coord[id])) =>
                /\ coord'[id].generated_artifacts = coord[id].generated_artifacts
                /\ coord'[id].received_signals = coord[id].received_signals
       /\ \A id \in DOMAIN coord :
            (SameRun(id) /\ coord'[id].generated_artifacts # coord[id].generated_artifacts)
                => /\ router.pc = "signalling"
                   /\ id = Head(router.running_workflow_ids)]_vars

\* an event was dropped, a run started after it, and a closed run is there
C9_Witness ==
    /\ router.pc = "returned"
    /\ router.listed = {}
    /\ n_events = 2
    /\ \E a, b \in DOMAIN coord :
         /\ coord[a].status = "GATHERED"
         /\ coord[a].generated_artifacts # {}
         /\ coord[b].status = "AWAITING_READINESS"
         /\ coord[b].generated_artifacts = {}

\* C10 as claimed: once the call has ended, every run it listed that is
\* still running holds the event's pair
C10_AllRunningSignalled ==
    router.pc \in {"returned", "raised"} =>
        \A x \in router.listed :
            (/\ coord[x[1]].run_id = x[2]
             /\ CoordRunning(coord[x[1]]))
                => CommaJoin(router.target_id, router.checksum)
                        \in coord[x[1]].generated_artifacts

DiffOf(A, B) == A \ B

\* C7: get_updated_devices answers a mapping whose keys are exactly the
\* (object id, checksum) pairs of the tuples of the branch that are not
\* tuples of main, each key once, and whose value at a key is the
\* display_label of such a tuple with that key; equal sets give no entry.
C7_DiffCorrect ==
    call.op = "get_updated_devices" =>
        LET A == call.branch_artifacts
            B == call.main_artifacts
            d == call.devices
        IN  /\ keys(d) = {<<t[1], t[2]>> : t \in DiffOf(A, B)}
            /\ \A i, j \in DOMAIN d : d[i][1] = d[j][1] => i = j
            /\ \A i \in DOMAIN d :
                 \E t \in DiffOf(A, B) : <<t[1], t[2]>> = d[i][1] /\ t[3] = d[i][2]
            /\ (A = B => d = <<>>)
            /\ \A t \in A \cap B :
                 (\A u \in DiffOf(A, B) : <<u[1], u[2]>> # <<t[1], t[2]>>)
                    => <<t[1], t[2]>> \notin keys(d)

\* a call whose branch shares a tuple with main and adds one under the same key
C7_Witness ==
    /\ call.op = "get_updated_devices"
    /\ \E t \in call.branch_artifacts \cap call.main_artifacts :
         \E u \in call.branch_artifacts \ call.main_artifacts :
            /\ <<u[1], u[2]>> = <<t[1], t[2]>>
            /\ call.devices = <<<<<<u[1], u[2]>>, u[3]>>>>

PastBarrier(c) ==
    \/ c.status \in {"DISPATCHED", "GATHERED"}
    \/ c.status = "FAILED" /\ c.child_promises # <<>>

StartedBy(id) ==
    {ch \in DOMAIN children : children[ch].parent = <<id, coord[id].run_id>>}

\* C11 as claimed: a run that has passed the barrier has started one
\* ConfigureDevice execution for each entry of its diff, with the entry's
\* display_label as device, the entry's checksum as expected_checksum and
\* the id {device}-proposed-change-{proposed_change_id}; it has started as
\* many executions as the diff has entries.
C11_FanOutComplete ==
    \A id \in DOMAIN coord :
        PastBarrier(coord[id]) =>
            LET c == coord[id]
            IN  /\ Len(c.child_promises) = Len(c.devices)
                /\ \A i \in DOMAIN c.devices :
                     LET ch == c.child_promises[i].id
                     IN  /\ c.child_promises[i].started
                         /\ ch = c.devices[i][2] \o <<"-proposed-change-">>
                                    \o c.payload.data.proposed_change_id
                         /\ children[ch].parent = <<id, c.run_id>>
                         /\ children[ch].device = c.devices[i][2]
                         /\ CommaJoin(split(c.devices[i][1], ",")[1],
                                      children[ch].expected_checksum) = c.devices[i][1]
                /\ Cardinality(StartedBy(id)) = Len(c.devices)

EmptyDiff(id, r) ==
    /\ id \in DOMAIN coord
    /\ coord[id].run_id = r
    /\ coord[id].status = "AWAITING_READINESS"
    /\ coord[id].devices = <<>>

\* C12: a run whose diff is empty leaves AWAITING_READINESS only to
\* GATHERED, with an empty result, no child promise and no child execution
\* started, and it does leave it, whatever signals it has or has not
\* received.
C12_EmptyDiff ==
    /\ [][\A id \in DOMAIN coord :
            (/\ SameRun(id)
             /\ coord[id].status = "AWAITING_READINESS"
             /\ coord[id].devices = <<>>
             /\ coord'[id].status # "AWAITING_READINESS")
                => /\ coord'[id].status = "GATHERED"
                   /\ coord'[id].results = <<>>
                   /\ coord'[id].child_promises = <<>>
                   /\ children' = children]_vars
    /\ \A id \in WorkflowIds : \A r \in 1..MaxStarts :
         EmptyDiff(id, r) ~>
            (/\ id \in DOMAIN coord
             /\ coord[id].run_id = r
             /\ coord[id].status = "GATHERED"
             /\ coord[id].results = <<>>)

\* a run with an empty diff has gathered and no event was ever received
C12_Witness ==
    /\ n_events = 0
    /\ children = <<>>
    /\ \E id \in DOMAIN coord :
         /\ coord[id].status = "GATHERED"
         /\ coord[id].devices = <<>>
         /\ coord[id].received_signals = <<>>
         /\ coord[id].results = <<>>

SamePortkeyRun(id) ==
    /\ id \in DOMAIN portkey
    /\ id \in DOMAIN portkey'
    /\ portkey'[id].run_id = portkey[id].run_id

PortkeyChildren(id) ==
    {ch \in DOMAIN children : children[ch].parent = <<id, portkey[id].run_id>>}

OnePortkeyChild ==
    \A id \in DOMAIN portkey :
        /\ portkey[id].status \in {"RESOLVING", "DISPATCHED", "DONE", "FAILED"}
        /\ portkey[id].status = "RESOLVING" =>
                /\ PortkeyChildren(id) = {}
                /\ ENABLED PortkeyResolved(id)
        /\ portkey[id].status \in {"DISPATCHED", "DONE"} =>
                /\ Len(portkey[id].child_promises) = 1
                /\ portkey[id].child_promises[1].started
                /\ PortkeyChildren(id) = {portkey[id].child_promises[1].id}
                /\ LET ch == children[portkey[id].child_promises[1].id]
                   IN  /\ ch.expected_checksum = portkey[id].payload.data.checksum
                       /\ ch.device = portkey[id].device
        /\ portkey[id].status = "DONE" =>
                LET ch == children[portkey[id].child_promises[1].id]
                IN  /\ ch.status = "DONE"
                    /\ portkey[id].results = ch.diffs

\* C13: a PortkeyWorkflow run waits for nothing but get_device: while
\* RESOLVING its dispatch step can be taken whatever was signalled; the step
\* starts one ConfigureDevice execution, for the resolved device and with
\* the checksum of the request as expected_checksum, and touches no
\* ProposedChangeWorkflow; a run that is DONE holds the result of that
\* child, which is DONE.
C13_PortkeyPath ==
    /\ []OnePortkeyChild
    /\ [][\A id \in DOMAIN portkey :
            (SamePortkeyRun(id) /\ portkey'[id] # portkey[id]) =>
                /\ coord' = coord
                /\ router' = router
                /\ portkey[id].status = "RESOLVING" =>
                        \/ portkey'[id].status = "FAILED" /\ children' = children
                        \/ /\ portkey'[id].status = "DISPATCHED"
                           /\ portkey'[id].device
                                = <<"d", portkey[id].payload.data.target_id[2]>>
                /\ portkey[id].status = "DISPATCHED" => children' = children]_vars

\* a Portkey run returned its child's diffs; no event was received and no
\* ProposedChangeWorkflow was started
C13_Witness ==
    /\ n_events = 0
    /\ coord = <<>>
    /\ \E id \in DOMAIN portkey :
         /\ portkey[id].status = "DONE"
         /\ portkey[id].payload.data.target_id = <<"R", "1">>
         /\ portkey[id].payload.data.checksum = <<"c", "2">>
         /\ portkey[id].results # <<>>
         /\ children[portkey[id].child_promises[1].id].expected_checksum = <<"c", "2">>

\* C15: configure_device returns a value exactly when neither the
\* connection, nor set(), nor the loop over the reported changes raised;
\* the value is then the whole normalised diff of the answer.  A call in
\* which any of them raised ends by raising and returns nothing, whatever
\* had been accumulated.
C15_NoPartialDiff ==
    call.op = "configure_device" =>
        /\ call.reply.fault => call.result = [raised |-> TRUE]
        /\ ~call.reply.fault =>
                /\ ~call.result.raised
                /\ DOMAIN call.result = {"raised", "value"}
                /\ Len(call.result.value) = 1
                /\ call.result.value[1][1] = call.device
                /\ call.result.value[1][2] =
                        IF call.diff_list = <<>>
                        THEN <<<<<<"/">>, <<NO_CHANGES>>>>>>
                        ELSE collect_diffs(call.diff_list, <<>>)

\* the loop raised at the second of two reported changes, one entry had
\* been accumulated, and the call raised
C15_Witness ==
    /\ call.op = "configure_device"
    /\ call.reply.fault
    /\ call.reply.stage = "loop"
    /\ call.reply.at = 2
    /\ try_block(call.reply).diffs # <<>>
    /\ call.result = [raised |-> TRUE]

Terminal(p) == p.status \in {"DONE", "FAILED"}

\* C14 as claimed: the execution reaches DONE or FAILED; from then on
\* neither it nor its activity code takes a step; DONE is entered from
\* APPLYING, APPLYING from ARTIFACT_READY, ARTIFACT_READY from
\* POLLING_ARTIFACT, and a DONE execution holds {device: diffs}.
C14_OneTerminalOutcome ==
    /\ <>Terminal(proc)
    /\ [][Terminal(proc) =>
            /\ proc' = proc
            /\ world'.device_config = world.device_config]_vars
    /\ [][proc'.status # proc.status =>
            /\ proc'.status = "DONE" => proc.status = "APPLYING"
            /\ proc'.status = "APPLYING" => proc.status = "ARTIFACT_READY"
            /\ proc'.status = "ARTIFACT_READY" => proc.status = "POLLING_ARTIFACT"]_vars
    /\ [](proc.status = "DONE" =>
            /\ Len(proc.result) = 1
            /\ proc.result[1][1] = proc.device)

\* C16: an attempt of get_artifact is past its loop only after a poll that
\* read the expected checksum; it leaves the loop in the step of such a
\* poll, with the storage_id that poll read; and the artifact the
\* execution receives is the document stored under that storage_id.
C16_PollingGate ==
    /\ [](\A i \in DOMAIN proc.attempts :
            proc.attempts[i].pc = "fetch" =>
                /\ proc.attempts[i].data[1] = proc.expected_checksum
                /\ proc.attempts[i].checksum = proc.expected_checksum
                /\ proc.attempts[i].storage_id = proc.attempts[i].data[2])
    /\ [][\A i \in DOMAIN proc.attempts :
            (proc.attempts[i].pc # "fetch" /\ proc'.attempts[i].pc = "fetch") =>
                /\ proc.attempts[i].pc = "query"
                /\ world.store[1] = proc.expected_checksum
                /\ proc'.attempts[i].storage_id = world.store[2]]_vars
    /\ [][proc'.artifact # proc.artifact =>
            \E i \in DOMAIN proc.attempts :
                /\ proc.attempts[i].pc = "fetch"
                /\ proc.attempts[i].current
                /\ proc'.artifact = <<"v", proc.attempts[i].data[2][2]>>]_vars

\* the first poll of the attempt read another checksum under another
\* storage_id; a later poll matched, and its document was returned
C16_Witness ==
    /\ proc.status = "APPLYING"
    /\ \E i \in DOMAIN proc.attempts :
         /\ proc.attempts[i].activity = "get_artifact"
         /\ proc.attempts[i].outcome = "returned"
         /\ proc.attempts[i].first_data[1] # proc.expected_checksum
         /\ proc.attempts[i].first_data[2] # proc.attempts[i].data[2]
         /\ proc.attempts[i].data[1] = proc.expected_checksum
         /\ proc.artifact = <<"v", proc.attempts[i].data[2][2]>>

NoAttemptReturns ==
    \A i \in DOMAIN proc.attempts : proc.attempts[i].outcome \notin {"returned", "dropped"}

Quiet == \A i \in DOMAIN proc.attempts : ~Executing(proc.attempts[i])

\* C17 as claimed: when no attempt of the pending activity ever returns,
\* because each one raises or because no poll reads the expected
\* checksum, the execution ends FAILED and from some point on none of its
\* attempts is retrying or polling any more.
C17_BoundedRetry ==
    ([]NoAttemptReturns /\ [](proc.status # "TERMINATED"))
        => <>[](proc.status = "FAILED" /\ Quiet)

\* C20 as claimed: a DONE execution returns the diff that each attempt of
\* configure_device which applied the document computed.
C20_NoSilentLoss ==
    proc.status = "DONE" =>
        \A k \in DOMAIN proc.computed : proc.result = proc.computed[k]

Blocked(c) ==
    /\ c.status = "AWAITING_READINESS"
    /\ c.devices # <<>>
    /\ \E k \in keys(c.devices) : k \notin c.generated_artifacts

\* C18: a run that waits with a key of its diff not signalled can take no
\* step of its own, neither a dispatch nor a failure nor a timeout; every
\* step of the system leaves it the same run in AWAITING_READINESS, with no
\* child promise and no child execution.
C18_UnboundedWait ==
    /\ [](\A id \in DOMAIN coord :
            Blocked(coord[id]) =>
                /\ ~ENABLED CoordDispatch(id)
                /\ ~ENABLED CoordGathered(id)
                /\ ~ENABLED CoordGatherFailed(id)
                /\ ~ENABLED CoordActivityFailed(id)
                /\ ~ENABLED CoordDiffComputed(id))
    /\ [][\A id \in DOMAIN coord :
            Blocked(coord[id]) =>
                /\ SameRun(id)
                /\ coord'[id].status = "AWAITING_READINESS"
                /\ coord'[id].devices = coord[id].devices
                /\ coord'[id].child_promises = <<>>
                /\ \A ch \in DOMAIN children' :
                     children'[ch].parent # <<id, coord[id].run_id>>]_vars

\* every event the bound allows was handled, the run received a signal
\* for another pair, and it still waits for the key of its diff
C18_Witness ==
    /\ n_events = MaxEvents
    /\ n_starts = MaxStarts
    /\ router.pc = "returned"
    /\ \E id \in DOMAIN coord :
         /\ Blocked(coord[id])
         /\ Len(coord[id].received_signals) = MaxEvents
         /\ keys(coord[id].devices) \cap coord[id].generated_artifacts = {}

\* C19: a run enters GATHERED from DISPATCHED only when every child it
\* started is DONE, and a GATHERED run holds, at the place of each entry of
\* its diff, the {device: diffs} of the child started for that entry,
\* whatever the order in which the children ended.
C19_Join ==
    /\ [](\A id \in DOMAIN coord :
            coord[id].status = "GATHERED" =>
                LET c == coord[id]
                IN  /\ DOMAIN c.results = DOMAIN c.devices
                    /\ DOMAIN c.child_promises = DOMAIN c.devices
                    /\ \A i \in DOMAIN c.devices :
                         /\ c.child_promises[i].started
                         /\ children[c.child_promises[i].id].parent = <<id, c.run_id>>
                         /\ children[c.child_promises[i].id].status = "DONE"
                         /\ c.results[i] = children[c.child_promises[i].id].diffs
                         /\ Len(c.results[i]) = 1
                         /\ c.results[i][1][1] = c.devices[i][2])
    /\ [][\A id \in DOMAIN coord :
            (/\ SameRun(id)
             /\ coord[id].status = "DISPATCHED"
             /\ coord'[id].status = "GATHERED")
                => \A i \in DOMAIN coord[id].child_promises :
                        children[coord[id].child_promises[i].id].status = "DONE"]_vars

\* a run gathered the results of its two children, which differ
C19_Witness ==
    \E id \in DOMAIN coord :
        /\ coord[id].status = "GATHERED"
        /\ Len(coord[id].results) = 2
        /\ coord[id].results[1][1][1] # coord[id].results[2][1][1]
        /\ coord[id].results[1][1][2] # coord[id].results[2][1][2]

\* the trigger message of the webhook: the branch is a field of "data"
TriggerShape(payload) == "branch" \in DOMAIN payload.data

\* C21 as claimed: a run started from {"data": {"proposed_change_id": p,
\* "branch": b}} that is in INIT can call get_updated_devices and take the
\* step to AWAITING_READINESS (the diff computed): the read of the branch
\* does not keep it in INIT.
C21_TriggerReachesDetector ==
    \A id \in DOMAIN coord :
        (coord[id].status = "INIT" /\ TriggerShape(coord[id].payload))
            => ENABLED CoordDiffComputed(id)

\* the signal the router is about to deliver to the run id
Delivering(id) ==
    /\ router.pc = "signalling"
    /\ Head(router.running_workflow_ids) = id
    /\ router' # router

\* C22: a signal delivered to a run in INIT is added to its
\* generated_artifacts and nothing is taken out of the set while the run is
\* in INIT or when the diff is answered; so a run whose diff keys were all
\* signalled before the diff was answered has its barrier open in the state
\* the answer leaves it in.
C22_SignalsRetained ==
    [][\A id \in DOMAIN coord :
        (SameRun(id) /\ coord[id].status = "INIT") =>
            /\ coord[id].generated_artifacts \subseteq coord'[id].generated_artifacts
            /\ Delivering(id) =>
                 CommaJoin(router.target_id, router.checksum)
                    \in coord'[id].generated_artifacts
            /\ (/\ coord'[id].status = "AWAITING_READINESS"
                /\ keys(coord'[id].devices) \subseteq coord[id].generated_artifacts)
                    => barrier_open(coord'[id])]_vars

\* a run in INIT has received a signal, and the diff can now be answered
\* with that key alone, which leaves the barrier open
C22_Witness ==
    \E id \in DOMAIN coord :
        /\ coord[id].status = "INIT"
        /\ coord[id].received_signals # <<>>
        /\ ENABLED (/\ CoordDiffComputed(id)
                    /\ coord'[id].devices # <<>>
                    /\ barrier_open(coord'[id]))

\* the ids of the children a run starts for its diff, in the diff's order
ChildIds(c) ==
    [i \in DOMAIN c.devices |-> child_workflow_id(c.devices[i][2], c.payload)]

\* C23 as claimed: the child ids made for the entries of one run's diff are
\* pairwise distinct, also for entries with the same display_label, and a
\* run that has passed the barrier had none of its starts refused.
C23_DistinctChildIds ==
    \A id \in DOMAIN coord :
        /\ \A i, j \in DOMAIN coord[id].devices :
                i # j => ChildIds(coord[id])[i] # ChildIds(coord[id])[j]
        /\ PastBarrier(coord[id]) =>
                \A i \in DOMAIN coord[id].child_promises :
                    coord[id].child_promises[i].started

\* C24 as claimed: two ConfigureDevice executions that are both in APPLYING,
\* whichever runs started them, are for different devices.
C24_DeviceMutualExclusion ==
    \A a, b \in DOMAIN children :
        (/\ a # b
         /\ children[a].status = "APPLYING"
         /\ children[b].status = "APPLYING")
            => children[a].device # children[b].device

===========================================================================
